---- MODULE Spec2Model ----
(***************************************************************************)
(* Hopenhayn (1992) stationary equilibrium solver, src/Hopenhayn/          *)
(* hopenhayn.py: value function iteration (solve_vf), bisection on the     *)
(* free-entry condition (solve_firm), exit rule (exit_decision) and the    *)
(* invariant distribution (solve_invariant_distribution, solve_m_star),    *)
(* sequenced by solve_model.                                               *)
(*                                                                         *)
(* Numbers.  The program computes in binary floating point.  The model     *)
(* computes on finite grids with round-to-nearest, ties-to-even, as IEEE   *)
(* arithmetic does: prices are integers in units of 1/PS, values (profit,  *)
(* VF, ce, cf, output, labour) are integers in units of 1/VS.  The linear  *)
(* solve of step 5 is carried out in exact rationals <<num, den>>.         *)
(* tol is expressed in value units, maxit is scaled down to keep the       *)
(* bisection (14 halvings of [0.01, 100] at resolution 0.01) inside it.    *)
(***************************************************************************)
EXTENDS Integers, Sequences, FiniteSets, TLC

VARIABLES par, pc, caller, pmin, pmax, price, it_p, VF_old, VF, it, dist,
          firm_profit, firm_output, pol_n, VF_entrant, diff,
          exit_cutoff, pol_exit, distrib_stationary_0, m_star,
          distrib_stationary, signal

vars == <<par, pc, caller, pmin, pmax, price, it_p, VF_old, VF, it, dist,
          firm_profit, firm_output, pol_n, VF_entrant, diff,
          exit_cutoff, pol_exit, distrib_stationary_0, m_star,
          distrib_stationary, signal>>

(***************************************************************************)
(* Resolution of the number grids and the iteration cap.                   *)
(***************************************************************************)
PS == 100
VS == 10
maxit == 16
PivotInv == 100

(* self.tol, in units of 1/VS *)
tol == 2

(***************************************************************************)
(* Arithmetic helpers                                                      *)
(***************************************************************************)
Abs(x) == IF x < 0 THEN -x ELSE x

Max(a, b) == IF a >= b THEN a ELSE b

(* a / b rounded to the nearest integer, ties to even; b > 0 *)
RoundDiv(a, b) ==
    LET q == a \div b
        r == a % b
    IN  IF 2 * r < b THEN q
        ELSE IF 2 * r > b THEN q + 1
        ELSE IF q % 2 = 0 THEN q ELSE q + 1

RECURSIVE SumTo(_, _)
SumTo(f, n) == IF n = 0 THEN 0 ELSE f[n] + SumTo(f, n - 1)

(* np.dot of two vectors *)
Dot(u, v) == SumTo([j \in 1..Len(u) |-> u[j] * v[j]], Len(u))

(* np.dot of a matrix (sequence of rows) and a vector *)
MatVec(A, v) == [i \in 1..Len(A) |-> Dot(A[i], v)]

RECURSIVE MaxTo(_, _)
MaxTo(f, n) == IF n = 1 THEN f[1] ELSE Max(f[n], MaxTo(f, n - 1))

(* largest r in lo..hi-1 with r * r <= n, by bisection *)
RECURSIVE SqrtFloor(_, _, _)
SqrtFloor(n, lo, hi) ==
    IF hi - lo <= 1 THEN lo
    ELSE CHOOSE r \in
           { IF mid * mid <= n THEN SqrtFloor(n, mid, hi)
             ELSE SqrtFloor(n, lo, mid) : mid \in {(lo + hi) \div 2} } : TRUE

(* square root of n >= 0 rounded to the nearest integer *)
ISqrt(n) ==
    LET r == SqrtFloor(n, 0, IF n + 1 < 46340 THEN n + 1 ELSE 46340)
    IN  IF n - r * r <= r THEN r ELSE r + 1

Zeros(n) == [i \in 1..n |-> 0]

(***************************************************************************)
(* 1. setup: parameters and the discretised productivity process           *)
(***************************************************************************)
(* labour share theta = 1/2: 1/(1-theta) = 2 and x ** theta is a square    *)
(* root                                                                    *)
theta == <<1, 2>>

(* Markov chains as the discretisation returns them: transition matrix     *)
(* pi = P / Q (row stochastic), stationary distribution nu = nuN / nuQ,    *)
(* grid_z strictly increasing and positive                                 *)
Chain2 == [P |-> << <<3, 1>>, <<1, 3>> >>, Q |-> 4,
           nuN |-> <<1, 1>>, nuQ |-> 2, grid_z |-> <<1, 2>>]

Chain3 == [P |-> << <<2, 2, 0>>, <<1, 2, 1>>, <<0, 2, 2>> >>, Q |-> 4,
           nuN |-> <<1, 2, 1>>, nuQ |-> 4, grid_z |-> <<1, 2, 3>>]

Chains == {Chain2, Chain3}

Betas == {<<1, 2>>, <<4, 5>>}

Ces == {0, 5, 40, 1000, 1000000}

Params == [mc : Chains, beta : Betas, cf : {20}, ce : Ces, D : {100},
           wage : {1}]

Nz == Len(par.mc.grid_z)

(* entry cost and fixed cost in value units *)
ce == par.ce * VS

cf == par.cf * VS

(***************************************************************************)
(* 3. Problem of an incumbent plant                                        *)
(***************************************************************************)
incumbent_firm(p) ==
    LET z == par.mc.grid_z
        n == [i \in 1..Nz |->
                LET x == RoundDiv(VS * theta[1] * p * z[i],
                                  theta[2] * PS * par.wage)
                IN  RoundDiv(x * x, VS)]
        y == [i \in 1..Nz |-> z[i] * ISqrt(n[i] * VS)]
        f == [i \in 1..Nz |-> RoundDiv(p * y[i], PS) - par.wage * n[i] - cf]
    IN  [firm_profit |-> f, firm_output |-> y, pol_n |-> n]

(***************************************************************************)
(* 4. Solve incumbent and entrant firm problem                             *)
(***************************************************************************)
entry_condition(v) ==
    RoundDiv(par.beta[1] * Dot(v, par.mc.nuN), par.beta[2] * par.mc.nuQ)

(* one Bellman update, line 185 *)
Bellman(profit, vold) ==
    LET cont == MatVec(par.mc.P, vold)
    IN  [i \in 1..Nz |->
            profit[i] + RoundDiv(par.beta[1] * Max(0, RoundDiv(cont[i], par.mc.Q)),
                                 par.beta[2])]

(* line 187 *)
Distance(a, b) == MaxTo([i \in 1..Len(a) |-> Abs(a[i] - b[i])], Len(a))


(* np.searchsorted(a, v), side='left': numpy's binary search over the      *)
(* 0-based positions lo..hi of the sequence a                              *)
RECURSIVE BinSearch(_, _, _, _)
BinSearch(a, v, lo, hi) ==
    IF lo >= hi THEN lo
    ELSE LET mid == lo + ((hi - lo) \div 2)
         IN  IF a[mid + 1] < v THEN BinSearch(a, v, mid + 1, hi)
             ELSE BinSearch(a, v, lo, mid)

searchsorted(a, v) == BinSearch(a, v, 0, Len(a))

(* np.dot(self.pi, VF), line 204, in units of 1/(Q*VS): exact, so that the *)
(* sign of every entry is the sign the program sees                        *)
avg_VF(v) == MatVec(par.mc.P, v)

(***************************************************************************)
(* Exact rationals <<num, den>>, den > 0; <<1, 0>> stands for the          *)
(* non-finite results (inf, nan) of a floating-point division by zero      *)
(***************************************************************************)
RECURSIVE GCD(_, _)
GCD(a, b) ==
    IF b = 0 THEN a
    ELSE CHOOSE r \in { GCD(b, m) : m \in {a % b} } : TRUE

NonFinite == <<1, 0>>

Finite(r) == r[2] # 0

Rat(n, d) ==
    IF d = 0 THEN NonFinite
    ELSE LET g == GCD(Abs(n), Abs(d))
             s == IF d < 0 THEN -1 ELSE 1
         IN  <<s * (n \div g), s * (d \div g)>>

RatMul(a, b) ==
    IF ~Finite(a) \/ ~Finite(b) THEN NonFinite
    ELSE LET g1 == GCD(Abs(a[1]), b[2])
             g2 == GCD(Abs(b[1]), a[2])
         IN  Rat((a[1] \div g1) * (b[1] \div g2), (a[2] \div g2) * (b[2] \div g1))

RatDiv(a, b) ==
    IF ~Finite(a) \/ ~Finite(b) \/ b[1] = 0 THEN NonFinite
    ELSE RatMul(a, Rat(b[2], b[1]))

RatAdd(a, b) ==
    IF ~Finite(a) \/ ~Finite(b) THEN NonFinite
    ELSE LET g == GCD(a[2], b[2])
         IN  Rat(a[1] * (b[2] \div g) + b[1] * (a[2] \div g), (a[2] \div g) * b[2])

RECURSIVE RatSumTo(_, _)
RatSumTo(f, n) == IF n = 0 THEN <<0, 1>> ELSE RatAdd(f[n], RatSumTo(f, n - 1))

(* np.dot of two vectors of rationals *)
RatDot(u, v) == RatSumTo([j \in 1..Len(u) |-> RatMul(u[j], v[j])], Len(u))

(***************************************************************************)
(* la.inv: determinant and adjugate of an integer matrix                   *)
(***************************************************************************)
RemoveAt(s, k) == [t \in 1..(Len(s) - 1) |-> IF t < k THEN s[t] ELSE s[t + 1]]

Minor(M, i, j) == [r \in 1..(Len(M) - 1) |-> RemoveAt(RemoveAt(M, i)[r], j)]

RECURSIVE Det(_)
Det(M) ==
    IF Len(M) = 1 THEN M[1][1]
    ELSE SumTo([j \in 1..Len(M) |->
                  (IF j % 2 = 1 THEN 1 ELSE -1) * M[1][j] * Det(Minor(M, 1, j))],
               Len(M))

Adj(M) ==
    [i \in 1..Len(M) |-> [j \in 1..Len(M) |->
        IF Len(M) = 1 THEN 1
        ELSE (IF (i + j) % 2 = 0 THEN 1 ELSE -1) * Det(Minor(M, j, i))]]

(***************************************************************************)
(* 5. Find stationary distribution                                         *)
(***************************************************************************)
(* line 256: rows of exiting states zeroed, then transposed (times Q)      *)
pi_tilde(pe) ==
    [j \in 1..Nz |-> [i \in 1..Nz |-> par.mc.P[i][j] * (1 - pe[i])]]

(* Q * (I - pi_tilde), line 259 *)
IMinusPiTilde(pe) ==
    [j \in 1..Nz |-> [i \in 1..Nz |->
        (IF i = j THEN par.mc.Q ELSE 0) - pi_tilde(pe)[j][i]]]

(* m * inv(I - pi_tilde) . nu with the determinant taken as the rational   *)
(* det: x = m * Q * adj(M) . nuN / (det * nuQ)                             *)
InvDotNu(m, pe, det) ==
    LET a == MatVec(Adj(IMinusPiTilde(pe)), par.mc.nuN)
    IN  [j \in 1..Nz |->
            RatDiv(Rat(m * par.mc.Q * a[j], par.mc.nuQ), det)]

(* the pivots la.inv can see for a singular matrix: rounding leaves a tiny *)
(* nonzero pivot of either sign                                            *)
RoundedZero == {<<1, PivotInv>>, <<-1, PivotInv>>}

(* line 262 *)
solve_m_star(d0, y) ==
    RatDiv(<<par.D, 1>>, RatDot(d0, [j \in 1..Nz |-> Rat(y[j], VS)]))


(***************************************************************************)
(* solve_vf as a function of the price: the loop of lines 183-192 run to   *)
(* its end.  k counts the updates applied so far.                          *)
(***************************************************************************)
RECURSIVE VfIter(_, _, _, _)
VfIter(profit, vold, v, k) ==
    IF k >= maxit THEN v
    ELSE CHOOSE r \in
           { IF Distance(vold, nv) < tol THEN nv
             ELSE VfIter(profit, nv, nv, k + 1) :
               nv \in {Bellman(profit, vold) \o <<>>} } : TRUE

solve_vf(p) ==
    CHOOSE r \in { VfIter(f, z, z, 0) :
                      f \in {incumbent_firm(p).firm_profit \o <<>>},
                      z \in {Zeros(Nz) \o <<>>} } : TRUE

(* line 220: pmin, pmax = 0.01, 100 *)
pmin0 == PS \div 100

pmax0 == 100 * PS

(***************************************************************************)
(* State machine of solve_model.  pc is the position of the run:           *)
(*   "solve_firm"  head of the bisection loop (line 223)                   *)
(*   "solve_vf"    head of the value iteration loop (line 183)             *)
(*   "vf_return"   solve_vf returns to caller (line 195)                   *)
(*   "firm_return" solve_firm has returned the price (line 246)            *)
(*   "invariant_distribution" (line 289), "m_star" (line 294),             *)
(*   "done" (line 299), "failed" (an exception left solve_model)           *)
(* signal is the exception or warning the run has issued, "none" if none   *)
(***************************************************************************)
Init ==
    /\ par \in Params
    /\ pc = "solve_firm"
    /\ caller = "solve_firm"
    /\ pmin = pmin0
    /\ pmax = pmax0
    /\ price = 0
    /\ it_p = 0
    /\ VF_old = <<>>
    /\ VF = <<>>
    /\ it = 0
    /\ dist = 0
    /\ firm_profit = <<>>
    /\ firm_output = <<>>
    /\ pol_n = <<>>
    /\ VF_entrant = 0
    /\ diff = 0
    /\ exit_cutoff = 0
    /\ pol_exit = <<>>
    /\ distrib_stationary_0 = <<>>
    /\ m_star = <<0, 1>>
    /\ distrib_stationary = <<>>
    /\ signal = "none"

(* lines 176-180: entry of solve_vf(p) on behalf of who *)
EnterVf(p, who) ==
    /\ caller' = who
    /\ VF_old' = Zeros(Nz)
    /\ VF' = Zeros(Nz)
    /\ \E f \in {incumbent_firm(p)} :
          /\ firm_profit' = f.firm_profit
          /\ firm_output' = f.firm_output
          /\ pol_n' = f.pol_n
    /\ it' = 0
    /\ dist' = 0
    /\ pc' = "solve_vf"

(* lines 223-229: next trial price, then solve_vf(price) *)
Guess ==
    /\ pc = "solve_firm"
    /\ it_p < maxit
    /\ \E p \in {RoundDiv(pmin + pmax, 2)} :
          /\ price' = p
          /\ EnterVf(p, "solve_firm")
    /\ UNCHANGED <<par, pmin, pmax, it_p, VF_entrant, diff, exit_cutoff,
                   pol_exit, distrib_stationary_0, m_star,
                   distrib_stationary, signal>>

(* line 223 exhausted, line 246 *)
FirmExhausted ==
    /\ pc = "solve_firm"
    /\ it_p >= maxit
    /\ pc' = "firm_return"
    /\ UNCHANGED <<par, caller, pmin, pmax, price, it_p, VF_old, VF, it, dist,
                   firm_profit, firm_output, pol_n, VF_entrant, diff,
                   exit_cutoff, pol_exit, distrib_stationary_0, m_star,
                   distrib_stationary, signal>>

(* lines 183-192: one pass of the value iteration loop *)
VfStep ==
    /\ pc = "solve_vf"
    /\ it < maxit
    /\ VF' = Bellman(firm_profit, VF_old)
    /\ dist' = Distance(VF_old, VF')
    /\ it' = it + 1
    /\ IF dist' < tol
       THEN pc' = "vf_return" /\ VF_old' = VF_old
       ELSE pc' = "solve_vf" /\ VF_old' = VF'
    /\ UNCHANGED <<par, caller, pmin, pmax, price, it_p, firm_profit,
                   firm_output, pol_n, VF_entrant, diff, exit_cutoff,
                   pol_exit, distrib_stationary_0, m_star,
                   distrib_stationary, signal>>

(* line 183 exhausted, line 195 *)
VfExhausted ==
    /\ pc = "solve_vf"
    /\ it >= maxit
    /\ pc' = "vf_return"
    /\ UNCHANGED <<par, caller, pmin, pmax, price, it_p, VF_old, VF, it, dist,
                   firm_profit, firm_output, pol_n, VF_entrant, diff,
                   exit_cutoff, pol_exit, distrib_stationary_0, m_star,
                   distrib_stationary, signal>>

(* EntryCheck with the comparison of line 241 inverted *)
EntryCheck_Inverted ==
    /\ pc = "vf_return"
    /\ caller = "solve_firm"
    /\ VF_entrant' = entry_condition(VF)
    /\ diff' = Abs(VF_entrant' - ce)
    /\ IF diff' < tol
       THEN pc' = "firm_return" /\ UNCHANGED <<pmin, pmax, it_p>>
       ELSE /\ pc' = "solve_firm"
            /\ it_p' = it_p + 1
            /\ IF VF_entrant' > ce
               THEN pmin' = price /\ pmax' = pmax
               ELSE pmax' = price /\ pmin' = pmin
    /\ UNCHANGED <<par, caller, price, VF_old, VF, it, dist, firm_profit,
                   firm_output, pol_n, exit_cutoff, pol_exit,
                   distrib_stationary_0, m_star, distrib_stationary, signal>>

(* EntryCheck in a loop that does not count its passes *)
EntryCheck_Uncounted ==
    /\ pc = "vf_return"
    /\ caller = "solve_firm"
    /\ VF_entrant' = entry_condition(VF)
    /\ diff' = Abs(VF_entrant' - ce)
    /\ IF diff' < tol
       THEN pc' = "firm_return" /\ UNCHANGED <<pmin, pmax, it_p>>
       ELSE /\ pc' = "solve_firm"
            /\ it_p' = it_p
            /\ IF VF_entrant' < ce
               THEN pmin' = price /\ pmax' = pmax
               ELSE pmax' = price /\ pmin' = pmin
    /\ UNCHANGED <<par, caller, price, VF_old, VF, it, dist, firm_profit,
                   firm_output, pol_n, exit_cutoff, pol_exit,
                   distrib_stationary_0, m_star, distrib_stationary, signal>>

(* lines 232-244: free entry check and update of the price interval *)
EntryCheck ==
    /\ pc = "vf_return"
    /\ caller = "solve_firm"
    /\ VF_entrant' = entry_condition(VF)
    /\ diff' = Abs(VF_entrant' - ce)
    /\ IF diff' < tol
       THEN pc' = "firm_return" /\ UNCHANGED <<pmin, pmax, it_p>>
       ELSE /\ pc' = "solve_firm"
            /\ it_p' = it_p + 1
            /\ IF VF_entrant' < ce
               THEN pmin' = price /\ pmax' = pmax
               ELSE pmax' = price /\ pmin' = pmin
    /\ UNCHANGED <<par, caller, price, VF_old, VF, it, dist, firm_profit,
                   firm_output, pol_n, exit_cutoff, pol_exit,
                   distrib_stationary_0, m_star, distrib_stationary, signal>>

(* lines 278-281: price_ss, then solve_vf(price_ss) *)
SolveModelVf ==
    /\ pc = "firm_return"
    /\ EnterVf(price, "solve_model")
    /\ UNCHANGED <<par, pmin, pmax, price, it_p, VF_entrant, diff,
                   exit_cutoff, pol_exit, distrib_stationary_0, m_star,
                   distrib_stationary, signal>>

(* lines 284, 204-210: grid_z[idx] raises IndexError when idx = Nz *)
exit_decision ==
    /\ pc = "vf_return"
    /\ caller = "solve_model"
    /\ LET idx == searchsorted(avg_VF(VF), 0)
       IN  IF idx >= Nz
           THEN /\ signal' = "IndexError"
                /\ pc' = "failed"
                /\ UNCHANGED <<exit_cutoff, pol_exit>>
           ELSE /\ exit_cutoff' = par.mc.grid_z[idx + 1]
                /\ pol_exit' = [i \in 1..Nz |->
                                  IF par.mc.grid_z[i] < exit_cutoff' THEN 1 ELSE 0]
                /\ pc' = "invariant_distribution"
                /\ UNCHANGED signal
    /\ UNCHANGED <<par, caller, pmin, pmax, price, it_p, VF_old, VF, it, dist,
                   firm_profit, firm_output, pol_n, VF_entrant, diff,
                   distrib_stationary_0, m_star, distrib_stationary>>

(* lines 289, 255-259.  For a singular I - pi_tilde la.inv raises          *)
(* LinAlgError when the elimination meets an exactly zero pivot, and       *)
(* otherwise divides by the rounding residue left in its place             *)
solve_invariant_distribution ==
    /\ pc = "invariant_distribution"
    /\ LET d == Det(IMinusPiTilde(pol_exit))
       IN  IF d # 0
           THEN /\ distrib_stationary_0' = InvDotNu(1, pol_exit, <<d, 1>>)
                /\ pc' = "m_star"
                /\ UNCHANGED signal
           ELSE \/ /\ signal' = "LinAlgError"
                   /\ pc' = "failed"
                   /\ UNCHANGED distrib_stationary_0
                \/ /\ \E eps \in RoundedZero :
                          distrib_stationary_0' = InvDotNu(1, pol_exit, eps)
                   /\ pc' = "m_star"
                   /\ UNCHANGED signal
    /\ UNCHANGED <<par, caller, pmin, pmax, price, it_p, VF_old, VF, it, dist,
                   firm_profit, firm_output, pol_n, VF_entrant, diff,
                   exit_cutoff, pol_exit, m_star, distrib_stationary>>

(* lines 294-299: entrant mass and rescaled distribution *)
Rescale ==
    /\ pc = "m_star"
    /\ m_star' = solve_m_star(distrib_stationary_0, firm_output)
    /\ distrib_stationary' =
           [j \in 1..Nz |-> RatMul(m_star', distrib_stationary_0[j])]
    /\ pc' = "done"
    /\ UNCHANGED <<par, caller, pmin, pmax, price, it_p, VF_old, VF, it, dist,
                   firm_profit, firm_output, pol_n, VF_entrant, diff,
                   exit_cutoff, pol_exit, distrib_stationary_0, signal>>

Next ==
    \/ Guess
    \/ FirmExhausted
    \/ VfStep
    \/ VfExhausted
    \/ EntryCheck
    \/ SolveModelVf
    \/ exit_decision
    \/ solve_invariant_distribution
    \/ Rescale

Spec == Init /\ [][Next]_vars

(* the steps of solve_firm and of the solve_vf calls it makes *)
SolveFirmStep ==
    Guess \/ FirmExhausted \/ VfStep \/ VfExhausted \/ EntryCheck

(* the run is sequential and nothing blocks it: a loop step that can be    *)
(* taken is eventually taken                                               *)
FairSpec == Spec /\ WF_vars(SolveFirmStep) /\ WF_vars(SolveModelVf)

(***************************************************************************)
(* exit_decision as a function of VF: the value function is drawn from a   *)
(* small box and exit_decision is applied to it                            *)
(***************************************************************************)
ExitVal == 2

InitExit ==
    /\ \E c \in Chains :
          /\ par = [mc |-> c, beta |-> <<4, 5>>, cf |-> 20, ce |-> 40,
                    D |-> 100, wage |-> 1]
          /\ VF \in [1..Len(c.grid_z) -> (-ExitVal)..ExitVal]
    /\ pc = "vf_return"
    /\ caller = "solve_model"
    /\ pmin = pmin0
    /\ pmax = pmax0
    /\ price = 0
    /\ it_p = 0
    /\ VF_old = VF
    /\ it = 0
    /\ dist = 0
    /\ firm_profit = <<>>
    /\ firm_output = <<>>
    /\ pol_n = <<>>
    /\ VF_entrant = 0
    /\ diff = 0
    /\ exit_cutoff = 0
    /\ pol_exit = <<>>
    /\ distrib_stationary_0 = <<>>
    /\ m_star = <<0, 1>>
    /\ distrib_stationary = <<>>
    /\ signal = "none"

NextExit == exit_decision

SpecExit == InitExit /\ [][NextExit]_vars

(***************************************************************************)
(* Properties                                                              *)
(***************************************************************************)
InBisection == caller = "solve_firm" /\ pc \in {"solve_vf", "vf_return"}

Ones == [i \in 1..Nz |-> 1]

NoExit == Len(pol_exit) = Nz /\ \A i \in 1..Nz : pol_exit[i] = 0

(* exit_decision has been applied to VF *)
ExitActed ==
    \/ pc = "invariant_distribution"
    \/ pc = "failed" /\ signal = "IndexError"

AllNegative == \A i \in 1..Nz : avg_VF(VF)[i] < 0

Monotone == \A i \in 1..(Nz - 1) : avg_VF(VF)[i] <= avg_VF(VF)[i + 1]

(* the initial interval does not bracket a root of the free entry          *)
(* condition                                                               *)
BracketInvalid ==
    \/ entry_condition(solve_vf(pmin0)) > ce
    \/ entry_condition(solve_vf(pmax0)) < ce

(* C1: the price returned by solve_firm satisfies the free entry condition *)
(* within tol, on every exit path of the bisection loop                    *)
C1_FreeEntryAtReturn ==
    pc = "firm_return" => Abs(entry_condition(solve_vf(price)) - ce) < tol

(* C2: when the initial interval [pmin, pmax] does not bracket a root,     *)
(* solve_firm signals NoEquilibriumError instead of returning a price      *)
C2_BracketChecked ==
    (pc = "firm_return" /\ BracketInvalid) => signal = "NoEquilibriumError"

(* C3: when solve_vf uses up maxit iterations without the distance falling *)
(* below tol, it returns the last iterate and signals a ConvergenceWarning *)
C3_TruncationWarned ==
    (pc = "vf_return" /\ dist >= tol) =>
        (VF = VF_old /\ signal = "ConvergenceWarning")

(* C4: when avg_VF is negative in every state, exit_decision yields        *)
(* pol_exit = 1 for every state and does not fail in an unrelated way      *)
C4_AllExitReported ==
    (ExitActed /\ AllNegative) => (signal # "IndexError" /\ pol_exit = Ones)

(* C5: for non-decreasing avg_VF, exit_decision returns pol_exit[i] = 1    *)
(* exactly for the states with avg_VF[i] < 0, and exit_cutoff is the       *)
(* productivity of the first state with avg_VF >= 0                        *)
C5_PrefixRule ==
    (ExitActed /\ Monotone) =>
        /\ pc = "invariant_distribution"
        /\ \A i \in 1..Nz : pol_exit[i] = IF avg_VF(VF)[i] < 0 THEN 1 ELSE 0
        /\ \A i \in 1..Nz :
              (avg_VF(VF)[i] >= 0 /\ \A j \in 1..(i - 1) : avg_VF(VF)[j] < 0)
                  => exit_cutoff = par.mc.grid_z[i]

FixedPoint(x) ==
    \A j \in 1..Nz :
        x[j] = RatAdd(Rat(par.mc.nuN[j], par.mc.nuQ),
                      RatSumTo([i \in 1..Nz |->
                                  RatMul(Rat(par.mc.P[i][j] * (1 - pol_exit[i]),
                                             par.mc.Q), x[i])], Nz))

C8_PminNeverRaised == par.ce = 0 => (pmin = pmin0 /\ VF_entrant >= 0)

AllProfitNegative == \A i \in 1..Nz : firm_profit[i] < 0

(* C8 amended: with ce = 0 a bisection step that does not terminate lowers *)
(* pmax when the discounted entrant value at the trial price is positive   *)
(* and raises pmin when it is negative; it is negative at every trial      *)
(* price at which profit is negative in every state                        *)
C8_StepFollowsSign ==
    [][(par.ce = 0 /\ pc = "vf_return" /\ caller = "solve_firm") =>
          /\ AllProfitNegative => entry_condition(VF) < 0
          /\ entry_condition(VF) <= -tol => (pmin' = price /\ pmax' = pmax)
          /\ entry_condition(VF) >= tol => (pmax' = price /\ pmin' = pmin)
          /\ Abs(entry_condition(VF)) < tol => pc' = "firm_return"]_vars

(* with ce = 0 the search has returned with pmin raised *)
C8_Witness == par.ce = 0 /\ pc = "firm_return" /\ pmin > pmin0

(* C9: 0.01 <= pmin < pmax <= 100 in every state of the bisection, the     *)
(* trial price is the midpoint and the returned price is strictly inside   *)
(* (0.01, 100)                                                             *)
C9_StrictBracket ==
    /\ pmin0 <= pmin /\ pmin < pmax /\ pmax <= pmax0
    /\ InBisection => price = RoundDiv(pmin + pmax, 2)
    /\ pc = "firm_return" => (pmin0 < price /\ price < pmax0)

C10_Bounded ==
    /\ it_p <= maxit
    /\ it <= maxit
    /\ (pc = "solve_vf" /\ it = 0) => (VF_old = Zeros(Nz) /\ VF = Zeros(Nz))
    /\ (pc = "vf_return" /\ it < maxit) => dist < tol
    /\ (pc \in {"solve_vf", "vf_return"}) =>
           firm_profit = incumbent_firm(price).firm_profit

(* C10: solve_firm and solve_vf always terminate: solve_vf starts from     *)
(* VF = 0, applies at most maxit Bellman updates and stops earlier only    *)
(* when the distance is below tol; solve_firm performs at most maxit       *)
(* bisection steps, each running one solve_vf at the trial price           *)
C10_Terminates ==
    /\ []C10_Bounded
    /\ <>(pc = "firm_return")
    /\ (pc = "solve_vf") ~> (pc = "vf_return")

(* solve_firm has returned after maxit bisection steps without meeting     *)
(* the tolerance, the last solve_vf truncated at maxit                     *)
C10_Witness ==
    pc = "firm_return" /\ it_p = maxit /\ diff >= tol /\ it = maxit
    /\ dist >= tol

====
